---- MODULE Spec2Model ----
(***************************************************************************)
(* The A2A hub (src/local_a2a_server.py, LocalA2AServer) and the A2A       *)
(* client (src/a2a_network.py, A2ANetwork) as a state machine.             *)
(*                                                                         *)
(* One step of the model is one run of a coroutine between two suspension  *)
(* points (an await that may yield: the next message of `async for`, a     *)
(* websocket.send, websockets.connect).                                     *)
(*                                                                         *)
(* Encoding of values.  A JSON object is a record whose fields are the     *)
(* keys that are present; a JSON value that is not an object (null, a      *)
(* list, a string at the place of an object) is the record                 *)
(* [nondict |-> <its text>]; Python's None at the place of a string is     *)
(* the string None.  A message on the wire is [json |-> v] for the JSON    *)
(* text of v and [text |-> s] for text that is not JSON.                   *)
(***************************************************************************)
EXTENDS Integers, Sequences, FiniteSets, TLC

\* ------------------------------------------------------------------ bounds
MaxHandles == 3      \* connections the hub accepts in one run
MaxMsgs == 2         \* messages the peers send in one run, handshakes aside
MaxConnects == 2     \* calls of connect_to_server in one run

Handles == 1..MaxHandles

VARIABLES
    clients,            \* LocalA2AServer.clients: the Registry
    message_history,    \* LocalA2AServer.message_history
    pc,                 \* per handle: position of its register_client task
    cur,                \* per handle: locals of a suspended broadcast_to_agents
    conn,               \* per handle: state of the transport
    inbox,              \* per handle: messages sent by the peer, unread by the hub
    outbox,             \* per handle: messages the hub wrote to the peer
    nsent,              \* messages sent by raw peers so far
    websocket,          \* A2ANetwork.websocket (0: None)
    is_connected,       \* A2ANetwork.is_connected
    sent_messages,      \* A2ANetwork.sent_messages
    received_messages,  \* A2ANetwork.received_messages
    ctask,              \* position of the connect_to_server coroutine
    listener,           \* per handle: the listen_for_messages task bound to it
    rd,                 \* per handle: messages its listener has read
    owned,              \* the connections opened by the client
    ncalls,             \* calls of connect_to_server and of send_message so far
    send_result,        \* the last send_message call: value returned, caller's dict
    lost_before_connect, \* the held connection was closed at the last connect_to_server call
    alert_history,      \* the guardian's alert_history
    start_pc,           \* the guardian's start(): "none", "connect" (awaiting connect_to_server), "done"
    a2a_success,        \* start()'s a2a_success, None before connect_to_server has returned
    tasks               \* the monitoring loops start() has created

hubVars == <<clients, message_history, pc, cur>>
netVars == <<conn, inbox, outbox, nsent>>
networkVars == <<websocket, is_connected, sent_messages, received_messages,
                 ctask, listener, rd, owned, ncalls, send_result,
                 lost_before_connect>>
guardianVars == <<alert_history, start_pc, a2a_success, tasks>>
clientVars == <<networkVars, guardianVars>>
vars == <<clients, message_history, pc, cur, conn, inbox, outbox, nsent,
          websocket, is_connected, sent_messages, received_messages,
          ctask, listener, rd, owned, ncalls, send_result,
          lost_before_connect, alert_history, start_pc, a2a_success, tasks>>

\* ------------------------------------------------------------ JSON values
None == "null"
NoneDict == [nondict |-> "None"]

IsDict(v) == "nondict" \notin DOMAIN v

\* dict.get(key, default)
get(d, key, default) == IF key \in DOMAIN d THEN d[key] ELSE default

\* Python truthiness of a string-or-None value
Truthy(v) == v # None /\ v # ""

\* a message on the wire is kept as the value its text denotes; the text
\* itself is json_encode / json_decode, further down
json_dumps(v) == [json |-> v]
Decodable(message) == "json" \in DOMAIN message
json_loads(message) == message.json

\* datetime.now().isoformat(): the clock is not modelled, a stamp is a token
Now == "iso-now"

\* --------------------------------------------------------- the hub's code
NoCur == [data |-> NoneDict, todo |-> {}, disconnected |-> {}]

\* variant: the error envelope with another text
error_msg_other_text == [type |-> "error", message |-> "Invalid message", timestamp |-> Now]

error_msg == [type |-> "error", message |-> "Invalid JSON format", timestamp |-> Now]

capabilities == <<"trade_signals", "security_alerts", "market_data">>

\* variant: the range of the random draw starts at zero
uniform_from_zero(a, b) == {0, b}

\* random.uniform(a, b) = a + (b - a) * random(): the two ends of the range
uniform(a, b) == {a, b}

\* data['type'] at line 31: TypeError on a non-object, KeyError without the key
HasType(data) == IsDict(data) /\ "type" \in DOMAIN data

\* data.get('payload', {}).get(key): AttributeError when payload is no object
PayloadOk(data) == IsDict(get(data, "payload", [id |-> None]))
\* variant: the key is looked up in the envelope, not in its payload
payload_get_top_level(data, key, default) == get(data, key, default)

payload_get(data, key, default) == get(get(data, "payload", [id |-> None]), key, default)

\* the types whose branch of process_message reads the payload first (lines
\* 64, 75, 86)
ReadsPayload(msg_type) ==
    msg_type \in {"trade_signal", "security_alert", "market_data_request"}

\* variant: nothing is fanned out while the history is empty
IsBroadcastType_once_history(msg_type) ==
    msg_type \in {"trade_signal", "security_alert"} /\ message_history # <<>>

\* variant: a market_data_request is fanned out as well
IsBroadcastType_with_market_data(msg_type) ==
    msg_type \in {"trade_signal", "security_alert", "market_data_request"}

IsBroadcastType(msg_type) == msg_type \in {"trade_signal", "security_alert"}

\* variant: an unrecognized type is answered with an error envelope
process_message_error_on_unknown(data) ==
    LET msg_type == get(data, "type", None) IN
    IF msg_type = "handshake" THEN
        {[type |-> "handshake_response", status |-> "connected",
          capabilities |-> capabilities, timestamp |-> Now]}
    ELSE IF msg_type = "trade_signal" THEN
        {[type |-> "trade_signal_ack", status |-> "received",
          signal_id |-> get(get(data, "payload", [id |-> None]), "id", None),
          timestamp |-> Now]}
    ELSE IF msg_type = "security_alert" THEN
        {[type |-> "security_alert_ack", status |-> "received",
          alert_id |-> get(get(data, "payload", [id |-> None]), "id", None),
          timestamp |-> Now]}
    ELSE IF msg_type = "market_data_request" THEN
        {[type |-> "market_data_response",
          pair |-> get(get(data, "payload", [id |-> None]), "pair", "MONAD/ETH"),
          price |-> p, liquidity |-> l, volume_24h |-> v, timestamp |-> Now] :
            p \in uniform(1, 100), l \in uniform(100000, 10000000),
            v \in uniform(50000, 5000000)}
    ELSE {[type |-> "error", message |-> "Unknown message type", timestamp |-> Now]}

\* process_message: the set of values it may return for data (None: NoneDict);
\* for the two broadcast types this is the value returned after the fan-out
process_message(data) ==
    LET msg_type == get(data, "type", None) IN
    IF msg_type = "handshake" THEN
        {[type |-> "handshake_response", status |-> "connected",
          capabilities |-> capabilities, timestamp |-> Now]}
    ELSE IF msg_type = "trade_signal" THEN
        {[type |-> "trade_signal_ack", status |-> "received",
          signal_id |-> payload_get(data, "id", None), timestamp |-> Now]}
    ELSE IF msg_type = "security_alert" THEN
        {[type |-> "security_alert_ack", status |-> "received",
          alert_id |-> payload_get(data, "id", None), timestamp |-> Now]}
    ELSE IF msg_type = "market_data_request" THEN
        {[type |-> "market_data_response",
          pair |-> payload_get(data, "pair", "MONAD/ETH"),
          price |-> p, liquidity |-> l, volume_24h |-> v, timestamp |-> Now] :
            p \in uniform(1, 100), l \in uniform(100000, 10000000),
            v \in uniform(50000, 5000000)}
    ELSE {NoneDict}

\* variant: the relayed envelope loses its payload
mark_broadcast_drops_payload(message) ==
    [k \in (DOMAIN message \ {"payload"}) \cup {"broadcast", "broadcast_timestamp"} |->
        IF k = "broadcast" THEN "true"
        ELSE IF k = "broadcast_timestamp" THEN Now
        ELSE message[k]]

\* broadcast_to_agents lines 105-106: the dict is changed in place
mark_broadcast(message) ==
    [k \in DOMAIN message \cup {"broadcast", "broadcast_timestamp"} |->
        IF k = "broadcast" THEN "true"
        ELSE IF k = "broadcast_timestamp" THEN Now
        ELSE message[k]]

\* variant: the test does not ask for a non-empty exclude_source
skip_client_without_truth_test(message, exclude_source) ==
    get(message, "source", None) = exclude_source

\* broadcast_to_agents line 111: the test that skips a recipient
skip_client(message, exclude_source) ==
    Truthy(exclude_source) /\ get(message, "source", None) = exclude_source

\* variant: a handler that ends leaves its handle in the Registry
Terminate_keeps_handle(h, cl, raised) ==
    /\ inbox' = [inbox EXCEPT ![h] = <<>>]
    /\ clients' = cl
    /\ pc' = [pc EXCEPT ![h] = IF h \in cl /\ ~raised THEN "done" ELSE "raised"]
    /\ conn' = [conn EXCEPT ![h] = "closed"]
    /\ cur' = [cur EXCEPT ![h] = NoCur]

\* variant: a handler that ends empties the Registry
Terminate_clears_registry(h, cl, raised) ==
    /\ inbox' = [inbox EXCEPT ![h] = <<>>]
    /\ clients' = {}
    /\ pc' = [pc EXCEPT ![h] = IF h \in cl /\ ~raised THEN "done" ELSE "raised"]
    /\ conn' = [conn EXCEPT ![h] = "closed"]
    /\ cur' = [cur EXCEPT ![h] = NoCur]

\* register_client lines 22-25: the loop is left, finally clients.remove;
\* remove raises KeyError when the handle is gone; the server then closes
\* the connection and what the peer had sent is never read.  raised: an
\* exception other than ConnectionClosed.
Terminate(h, cl, raised) ==
    /\ inbox' = [inbox EXCEPT ![h] = <<>>]
    /\ clients' = cl \ {h}
    /\ pc' = [pc EXCEPT ![h] = IF h \in cl /\ ~raised THEN "done" ELSE "raised"]
    /\ conn' = [conn EXCEPT ![h] = "closed"]
    /\ cur' = [cur EXCEPT ![h] = NoCur]

\* what the peer has sent and the handler of h has not read, after this step
rest(h) == IF pc[h] = "recv" THEN Tail(inbox[h]) ELSE inbox[h]

\* variant: the direct reply is sent twice
Reply_twice(h, cl, response) ==
    IF ~IsDict(response) THEN
        /\ outbox' = outbox
        /\ inbox' = [inbox EXCEPT ![h] = rest(h)]
        /\ clients' = cl
        /\ pc' = [pc EXCEPT ![h] = "recv"]
        /\ cur' = [cur EXCEPT ![h] = NoCur]
        /\ conn' = conn
    ELSE IF conn[h] = "open" THEN
        /\ outbox' = [outbox EXCEPT ![h] =
                        Append(Append(@, json_dumps(response)), json_dumps(response))]
        /\ inbox' = [inbox EXCEPT ![h] = rest(h)]
        /\ clients' = cl
        /\ pc' = [pc EXCEPT ![h] = "recv"]
        /\ cur' = [cur EXCEPT ![h] = NoCur]
        /\ conn' = conn
    ELSE
        /\ outbox' = outbox
        /\ Terminate(h, cl, FALSE)

\* handle_message lines 40-41 / 49: websocket.send of the direct reply, which
\* raises ConnectionClosed on a closed connection and, awaited without a
\* timeout, does not return on a connection whose peer has stopped reading
Reply(h, cl, response) ==
    IF ~IsDict(response) THEN
        /\ outbox' = outbox
        /\ inbox' = [inbox EXCEPT ![h] = rest(h)]
        /\ clients' = cl
        /\ pc' = [pc EXCEPT ![h] = "recv"]
        /\ cur' = [cur EXCEPT ![h] = NoCur]
        /\ conn' = conn
    ELSE IF conn[h] = "stalled" THEN
        /\ outbox' = outbox
        /\ inbox' = [inbox EXCEPT ![h] = rest(h)]
        /\ clients' = cl
        /\ pc' = [pc EXCEPT ![h] = "blocked"]
        /\ cur' = [cur EXCEPT ![h] = NoCur]
        /\ conn' = conn
    ELSE IF conn[h] = "open" THEN
        /\ outbox' = [outbox EXCEPT ![h] = Append(@, json_dumps(response))]
        /\ inbox' = [inbox EXCEPT ![h] = rest(h)]
        /\ clients' = cl
        /\ pc' = [pc EXCEPT ![h] = "recv"]
        /\ cur' = [cur EXCEPT ![h] = NoCur]
        /\ conn' = conn
    ELSE
        /\ outbox' = outbox
        /\ Terminate(h, cl, FALSE)

\* variant: the fan-out is left to run on its own while the handler returns
\* to reading the peer's messages
FanoutSend_detached(h, c, message, todo, disconnected) ==
    /\ outbox' = IF conn[c] = "open"
                 THEN [outbox EXCEPT ![c] = Append(@, json_dumps(message))]
                 ELSE outbox
    /\ cur' = [cur EXCEPT ![h] =
                 [data |-> message, todo |-> todo \ {c},
                  disconnected |-> IF conn[c] = "open" THEN disconnected
                                   ELSE disconnected \cup {c}]]
    /\ pc' = [pc EXCEPT ![h] = "recv"]
    /\ inbox' = [inbox EXCEPT ![h] = rest(h)]
    /\ UNCHANGED <<clients, conn>>

\* broadcast_to_agents lines 110-115 for one recipient that is not skipped:
\* client.send, then the coroutine is suspended in it; the send raises on a
\* closed connection and, awaited without a timeout, does not return on a
\* connection whose peer has stopped reading
FanoutSend(h, c, message, todo, disconnected) ==
    /\ outbox' = IF conn[c] = "open"
                 THEN [outbox EXCEPT ![c] = Append(@, json_dumps(message))]
                 ELSE outbox
    /\ cur' = [cur EXCEPT ![h] =
                 [data |-> message, todo |-> todo \ {c},
                  disconnected |-> IF conn[c] \in {"open", "stalled"}
                                   THEN disconnected
                                   ELSE disconnected \cup {c}]]
    /\ pc' = [pc EXCEPT ![h] = IF conn[c] = "stalled" THEN "blocked" ELSE "fanout"]
    /\ inbox' = [inbox EXCEPT ![h] = rest(h)]
    /\ UNCHANGED <<clients, conn>>

\* variant: the entry records the source only
history_entry_without_message(data) ==
    [message |-> NoneDict, source |-> get(data, "source", None)]

\* handle_message lines 33-37 (the timestamp of the entry is left out)
history_entry(data) == [message |-> data, source |-> get(data, "source", None)]

\* register_client line 16: a connection is accepted
Accept(h) ==
    /\ conn[h] = "free"
    /\ \A g \in Handles : g < h => conn[g] # "free"
    /\ conn' = [conn EXCEPT ![h] = "open"]
    /\ clients' = clients \cup {h}
    /\ pc' = [pc EXCEPT ![h] = "recv"]
    /\ UNCHANGED <<message_history, cur, inbox, outbox, nsent>>

\* handle_message with process_message for the message read on h, up to the
\* first suspension
handle_message(h, message) ==
       IF ~Decodable(message) THEN
            /\ message_history' = message_history
            /\ Reply(h, clients, error_msg)
       ELSE LET data == json_loads(message) IN
       IF ~HasType(data) THEN
            /\ message_history' = message_history
            /\ outbox' = outbox
            /\ Terminate(h, clients, TRUE)
       ELSE IF ReadsPayload(data.type) /\ ~PayloadOk(data) THEN
            /\ message_history' = Append(message_history, history_entry(data))
            /\ outbox' = outbox
            /\ Terminate(h, clients, TRUE)
       ELSE IF ~IsBroadcastType(data.type) THEN
            /\ message_history' = Append(message_history, history_entry(data))
            /\ \E response \in process_message(data) : Reply(h, clients, response)
       ELSE IF clients = {} THEN
            /\ message_history' = Append(message_history, history_entry(data))
            /\ \E response \in process_message(data) : Reply(h, clients, response)
       ELSE LET marked == mark_broadcast(data) IN
            /\ message_history' = Append(message_history,
                    [message |-> marked, source |-> get(data, "source", None)])
            /\ IF skip_client(marked, get(data, "source", None))
               THEN \E response \in process_message(marked) :
                        Reply(h, clients, response)
               ELSE \E c \in clients : FanoutSend(h, c, marked, clients, {})

\* register_client lines 20-21: the next message of the connection is read
\* and handled
HubReceive(h) ==
    /\ pc[h] = "recv"
    /\ inbox[h] # <<>>
    /\ nsent' = nsent
    /\ handle_message(h, Head(inbox[h]))

\* variant: the ack is sent as soon as the first send has returned
HubFanout_acks_at_once(h) ==
    /\ pc[h] = "fanout"
    /\ UNCHANGED <<message_history, nsent>>
    /\ \E response \in process_message(cur[h].data) :
            Reply(h, clients \ cur[h].disconnected, response)

\* broadcast_to_agents resumed after a send: the next recipient, or lines
\* 117-118 and the ack of process_message
HubFanout(h) ==
    /\ pc[h] = "fanout"
    /\ UNCHANGED <<message_history, nsent>>
    /\ IF cur[h].todo # {}
       THEN \E c \in cur[h].todo :
                FanoutSend(h, c, cur[h].data, cur[h].todo, cur[h].disconnected)
       ELSE \E response \in process_message(cur[h].data) :
                Reply(h, clients \ cur[h].disconnected, response)

\* register_client lines 20-25: the iteration ends on a closed connection
HubLoopExit(h) ==
    /\ pc[h] = "recv"
    /\ conn[h] = "closed"
    /\ Terminate(h, clients, FALSE)
    /\ UNCHANGED <<message_history, outbox, nsent>>

\* ------------------------------------------------------------- raw peers
Src1 == "agent-1"
Src2 == "agent-2"

PeerMessages ==
    { [text |-> "not json"],
      json_dumps([nondict |-> "[1]"]),
      json_dumps([source |-> Src1]),
      json_dumps([type |-> "handshake", source |-> Src1]),
      json_dumps([type |-> "trade_signal", source |-> Src1, payload |-> [id |-> "s1"]]),
      json_dumps([type |-> "trade_signal", payload |-> [id |-> "s2"]]),
      json_dumps([type |-> "trade_signal", source |-> Src1, payload |-> [nondict |-> "null"]]),
      json_dumps([type |-> "security_alert", source |-> Src2, payload |-> [id |-> "a1"]]),
      json_dumps([type |-> "security_alert", source |-> ""]),
      json_dumps([type |-> "market_data_request", payload |-> [pair |-> "MONAD/USDC"]]),
      json_dumps([type |-> "market_data_request", source |-> Src2]),
      json_dumps([type |-> "ping", source |-> Src1]) }

PeerSend(h, m) ==
    /\ conn[h] = "open"
    /\ h \notin owned
    /\ nsent + ncalls.send < MaxMsgs
    /\ nsent' = nsent + 1
    /\ inbox' = [inbox EXCEPT ![h] = Append(@, m)]
    /\ UNCHANGED <<clients, message_history, pc, cur, conn, outbox>>

\* the peer closes, or the network drops the connection
PeerClose(h) ==
    /\ conn[h] = "open"
    /\ conn' = [conn EXCEPT ![h] = "closed"]
    /\ UNCHANGED <<clients, message_history, pc, cur, inbox, outbox, nsent>>

\* ------------------------------------------------------ the client's code
local_agent_id == "trading-guardian-moltiverse"

\* time.time(): the clock is not modelled, a stamp is a token
Time == "unix-now"

\* connect_to_server lines 27-31
handshake == [type |-> "handshake", source |-> local_agent_id, timestamp |-> Time]

\* broadcast_trade_signal lines 96-107
trade_signal_message(signal) ==
    [type |-> "trade_signal",
     payload |-> [id |-> signal.id, pair |-> signal.pair,
                  direction |-> signal.direction, amount |-> signal.amount,
                  price |-> signal.price, confidence |-> signal.confidence,
                  risk_level |-> signal.risk_level]]

\* broadcast_security_alert lines 124-134
security_alert_message(alert) ==
    [type |-> "security_alert",
     payload |-> [id |-> alert.id, alert_type |-> alert.alert_type,
                  severity |-> alert.severity,
                  affected_pairs |-> alert.affected_pairs,
                  description |-> alert.description,
                  related_tx_hashes |-> alert.related_tx_hashes]]

\* request_market_data lines 112-115
market_data_request_message(pair) ==
    [type |-> "market_data_request", payload |-> [pair |-> pair]]

\* the domain objects the callers pass (src/main.py lines 45-56,
\* src/trading_guardian.py lines 125-133)
DemoSignal ==
    [id |-> "s1", pair |-> "MONAD/ETH", direction |-> "BUY", amount |-> 100,
     price |-> "0.0012", confidence |-> "0.8", risk_level |-> "medium"]
DemoAlert ==
    [id |-> "alert_1", alert_type |-> "flash_crash", severity |-> 9,
     affected_pairs |-> <<"MONAD/ETH">>, description |-> "Rapid price movement",
     related_tx_hashes |-> <<>>]

\* the dicts passed to send_message: those of the three helpers, one of a
\* direct caller that supplies its own source and timestamp, and one of a
\* direct caller that has no type
CallerMessages ==
    { trade_signal_message(DemoSignal),
      security_alert_message(DemoAlert),
      market_data_request_message("MONAD/USDC"),
      [type |-> "status", source |-> "someone-else", timestamp |-> "caller-time"],
      [payload |-> [pair |-> "MONAD/ETH"]] }

\* variant: a source supplied by the caller is kept
stamp_keeps_caller_source(message) ==
    [k \in DOMAIN message \cup {"source", "timestamp"} |->
        IF k = "source" /\ "source" \notin DOMAIN message THEN local_agent_id
        ELSE IF k = "timestamp" THEN Time
        ELSE message[k]]

\* send_message lines 82-83: the dict is stamped in place
stamp(message) ==
    [k \in DOMAIN message \cup {"source", "timestamp"} |->
        IF k = "source" THEN local_agent_id
        ELSE IF k = "timestamp" THEN Time
        ELSE message[k]]

\* connect_to_server line 23 is called: the coroutine waits in websockets.connect
ConnectCall ==
    /\ ctask = "idle"
    /\ ncalls.connect < MaxConnects
    /\ ctask' = "connecting"
    /\ ncalls' = [ncalls EXCEPT !.connect = @ + 1]
    /\ lost_before_connect' = (websocket # 0 /\ conn[websocket] = "closed")
    /\ UNCHANGED <<websocket, is_connected, sent_messages, received_messages,
                   listener, rd, owned, send_result>>
    /\ UNCHANGED <<hubVars, netVars>>

\* the server accepts the client's connection (register_client line 16)
ClientAccept(h) ==
    /\ ctask = "connecting"
    /\ Accept(h)
    /\ ctask' = "opened"
    /\ owned' = owned \cup {h}
    /\ UNCHANGED <<websocket, is_connected, sent_messages, received_messages,
                   listener, rd, ncalls, send_result, lost_before_connect>>

\* connect_to_server lines 38-41: websockets.connect raised
ConnectFail ==
    /\ ctask = "connecting"
    /\ ctask' = "idle"
    /\ UNCHANGED <<websocket, is_connected, sent_messages, received_messages,
                   listener, rd, owned, ncalls, send_result,
                   lost_before_connect>>
    /\ UNCHANGED <<hubVars, netVars>>

\* the connection the pending connect_to_server has opened
pending_websocket == CHOOSE h \in owned : \A g \in owned : g <= h

\* variant: connect_to_server starts the listener without sending a handshake
ConnectResume_no_handshake ==
    /\ ctask = "opened"
    /\ ctask' = "idle"
    /\ websocket' = pending_websocket
    /\ is_connected' = TRUE
    /\ inbox' = inbox
    /\ listener' = [listener EXCEPT ![pending_websocket] = "run"]
    /\ UNCHANGED <<sent_messages, received_messages, rd, owned, ncalls, send_result,
                   lost_before_connect>>
    /\ UNCHANGED <<hubVars, conn, outbox, nsent>>

\* connect_to_server lines 23-36 after websockets.connect returned; the send
\* of the handshake raises on a connection that is closed already (line 38)
ConnectResume ==
    /\ ctask = "opened"
    /\ ctask' = "idle"
    /\ websocket' = pending_websocket
    /\ is_connected' = TRUE
    /\ IF conn[pending_websocket] = "open"
       THEN /\ inbox' = [inbox EXCEPT ![pending_websocket] =
                            Append(@, json_dumps(handshake))]
            /\ listener' = [listener EXCEPT ![pending_websocket] = "run"]
       ELSE /\ inbox' = inbox
            /\ listener' = listener
    /\ UNCHANGED <<sent_messages, received_messages, rd, owned, ncalls, send_result,
                   lost_before_connect>>
    /\ UNCHANGED <<hubVars, conn, outbox, nsent>>

\* no send_message call has returned yet
NoResult == [returned |-> FALSE, message |-> NoneDict]

\* variant: the dict is stamped before the connection is tested
send_message_stamps_first(message) ==
    IF ~is_connected \/ websocket = 0 THEN
        [returned |-> FALSE, message |-> stamp(message), transmitted |-> FALSE]
    ELSE IF conn[websocket] # "open" THEN
        [returned |-> FALSE, message |-> stamp(message), transmitted |-> FALSE]
    ELSE
        [returned |-> "type" \in DOMAIN message, message |-> stamp(message),
         transmitted |-> TRUE]

\* send_message lines 77-92: the value returned, the caller's dict after the
\* call, and whether websocket.send put it on the wire.  The guard returns
\* before the dict is touched; send raises on a closed connection (False from
\* the except branch, the dict stamped already); message['type'] in the print
\* at line 87, after send and append, raises KeyError on a dict without it,
\* and the except branch returns False
send_message(message) ==
    IF ~is_connected \/ websocket = 0 THEN
        [returned |-> FALSE, message |-> message, transmitted |-> FALSE]
    ELSE IF conn[websocket] # "open" THEN
        [returned |-> FALSE, message |-> stamp(message), transmitted |-> FALSE]
    ELSE
        [returned |-> "type" \in DOMAIN message, message |-> stamp(message),
         transmitted |-> TRUE]

\* a call of send_message
ClientSend(message) ==
    /\ nsent + ncalls.send < MaxMsgs
    /\ ncalls' = [ncalls EXCEPT !.send = @ + 1]
    /\ send_result' = [returned |-> send_message(message).returned,
                       message |-> send_message(message).message]
    /\ IF send_message(message).transmitted THEN
            /\ inbox' = [inbox EXCEPT ![websocket] =
                            Append(@, json_dumps(send_message(message).message))]
            /\ sent_messages' = Append(sent_messages, send_message(message).message)
       ELSE UNCHANGED <<inbox, sent_messages>>
    /\ UNCHANGED <<websocket, is_connected, received_messages, ctask,
                   listener, rd, owned, lost_before_connect>>
    /\ UNCHANGED <<hubVars, conn, outbox, nsent>>

\* variant: a message is appended only after its dispatch, which raises on a
\* JSON value that is no object
ListenRecv_appends_after_dispatch(h) ==
    /\ listener[h] = "run"
    /\ rd[h] < Len(outbox[h])
    /\ rd' = [rd EXCEPT ![h] = @ + 1]
    /\ LET message_json == outbox[h][rd[h] + 1] IN
       IF Decodable(message_json) /\ IsDict(json_loads(message_json))
       THEN received_messages' = Append(received_messages, json_loads(message_json))
       ELSE received_messages' = received_messages
    /\ UNCHANGED <<websocket, is_connected, sent_messages, ctask, listener,
                   owned, ncalls, send_result, lost_before_connect>>
    /\ UNCHANGED <<hubVars, netVars>>

\* listen_for_messages lines 46-47 with process_incoming_message lines 54-73:
\* JSONDecodeError is caught before the append; what the dispatch raises
\* (data.get on a value that is no object) is caught after it
ListenRecv(h) ==
    /\ listener[h] = "run"
    /\ rd[h] < Len(outbox[h])
    /\ rd' = [rd EXCEPT ![h] = @ + 1]
    /\ LET message_json == outbox[h][rd[h] + 1] IN
       IF Decodable(message_json)
       THEN received_messages' = Append(received_messages, json_loads(message_json))
       ELSE received_messages' = received_messages
    /\ UNCHANGED <<websocket, is_connected, sent_messages, ctask, listener,
                   owned, ncalls, send_result, lost_before_connect>>
    /\ UNCHANGED <<hubVars, netVars>>

\* listen_for_messages lines 46-50: the iteration ends on a closed connection,
\* by ConnectionClosed after an error closure, silently after a normal one
ListenClosed(h) ==
    /\ listener[h] = "run"
    /\ conn[h] = "closed"
    /\ listener' = [listener EXCEPT ![h] = "done"]
    /\ \/ is_connected' = FALSE
       \/ is_connected' = is_connected
    /\ UNCHANGED <<websocket, sent_messages, received_messages, ctask, rd,
                   owned, ncalls, send_result, lost_before_connect>>
    /\ UNCHANGED <<hubVars, netVars>>

\* -------------------------------------------------------- specification
Init ==
    /\ clients = {}
    /\ message_history = <<>>
    /\ pc = [h \in Handles |-> "none"]
    /\ cur = [h \in Handles |-> NoCur]
    /\ conn = [h \in Handles |-> "free"]
    /\ inbox = [h \in Handles |-> <<>>]
    /\ outbox = [h \in Handles |-> <<>>]
    /\ nsent = 0
    /\ websocket = 0
    /\ is_connected = FALSE
    /\ sent_messages = <<>>
    /\ received_messages = <<>>
    /\ ctask = "idle"
    /\ listener = [h \in Handles |-> "none"]
    /\ rd = [h \in Handles |-> 0]
    /\ owned = {}
    /\ ncalls = [connect |-> 0, send |-> 0]
    /\ send_result = NoResult
    /\ lost_before_connect = FALSE
    /\ alert_history = <<>>
    /\ start_pc = "none"
    /\ a2a_success = None
    /\ tasks = {}

\* the hub with raw peers
Next ==
    \/ \E h \in Handles : Accept(h) /\ UNCHANGED clientVars
    \/ \E h \in Handles : HubReceive(h) /\ UNCHANGED clientVars
    \/ \E h \in Handles : HubFanout(h) /\ UNCHANGED clientVars
    \/ \E h \in Handles : HubLoopExit(h) /\ UNCHANGED clientVars
    \/ \E h \in Handles, m \in PeerMessages : PeerSend(h, m) /\ UNCHANGED clientVars
    \/ \E h \in Handles : PeerClose(h) /\ UNCHANGED clientVars

Spec == Init /\ [][Next]_vars

\* the messages of the raw peer beside the client
BesideMessages ==
    { json_dumps([type |-> "trade_signal", payload |-> [id |-> "s2"]]),
      json_dumps([type |-> "handshake", source |-> Src1]) }

\* the raw peer beside the client connects first, and stays
BesideAccept(h) ==
    /\ \A g \in Handles : conn[g] = "free"
    /\ ncalls.connect = 0
    /\ Accept(h)
    /\ UNCHANGED clientVars

\* connect_to_server is called; called again only when no raw peer is there
ClientConnect ==
    /\ ncalls.connect = 0 \/ \A g \in Handles : conn[g] # "free" => g \in owned
    /\ ConnectCall

\* the raw peer beside the client sends one message
BesideSend(h, m) ==
    /\ nsent = 0
    /\ PeerSend(h, m)
    /\ UNCHANGED clientVars

\* a connection of the client is closed from the other side: dropped, or
\* closed by a closing handshake; ListenClosed tells the two apart
NetClose(h) ==
    /\ h \in owned
    /\ PeerClose(h)
    /\ UNCHANGED clientVars

\* frames that are not envelopes: text that is not JSON, JSON that is no object
RawFrames == { [text |-> "not json"], json_dumps([nondict |-> "[1]"]) }

\* the other end of the client's transport writes a frame of its own to it
WireInject(h, w) ==
    /\ h \in owned
    /\ conn[h] = "open"
    /\ listener[h] = "run"
    /\ nsent + ncalls.send < MaxMsgs
    /\ nsent' = nsent + 1
    /\ outbox' = [outbox EXCEPT ![h] = Append(@, w)]
    /\ UNCHANGED <<hubVars, conn, inbox, clientVars>>

\* the client, the hub and one raw peer
ClientNext ==
    \/ ClientConnect /\ UNCHANGED guardianVars
    \/ \E h \in Handles : ClientAccept(h) /\ UNCHANGED guardianVars
    \/ ConnectFail /\ UNCHANGED guardianVars
    \/ ConnectResume /\ UNCHANGED guardianVars
    \/ \E message \in CallerMessages : ClientSend(message) /\ UNCHANGED guardianVars
    \/ \E h \in Handles : ListenRecv(h) /\ UNCHANGED guardianVars
    \/ \E h \in Handles : ListenClosed(h) /\ UNCHANGED guardianVars
    \/ \E h \in Handles : BesideAccept(h)
    \/ \E h \in Handles : HubReceive(h) /\ UNCHANGED clientVars
    \/ \E h \in Handles : HubFanout(h) /\ UNCHANGED clientVars
    \/ \E h \in Handles : HubLoopExit(h) /\ UNCHANGED clientVars
    \/ \E h \in Handles, m \in BesideMessages : BesideSend(h, m)
    \/ \E h \in Handles : NetClose(h)
    \/ \E h \in Handles, w \in RawFrames : WireInject(h, w)

ClientSpec == Init /\ [][ClientNext]_vars

\* ------------------------------------------------ what a step of the hub sent
\* the messages written to handle g in this step
NewOut(g) == SubSeq(outbox'[g], Len(outbox[g]) + 1, Len(outbox'[g]))

\* a relayed envelope: one that carries the hub's broadcast mark
IsRelay(w) == Decodable(w) /\ IsDict(json_loads(w)) /\ "broadcast" \in DOMAIN json_loads(w)

\* w relays data: every field of data is in it, unchanged
IsRelayOf(w, data) ==
    /\ IsRelay(w)
    /\ \A k \in DOMAIN data : k \in DOMAIN json_loads(w) /\ json_loads(w)[k] = data[k]

Relayed(g) == SelectSeq(NewOut(g), IsRelay)
NotRelay(w) == ~IsRelay(w)
Direct(g) == SelectSeq(NewOut(g), NotRelay)

TypeOf(w) == IF Decodable(w) /\ IsDict(json_loads(w))
             THEN get(json_loads(w), "type", None) ELSE None

\* a trade_signal or security_alert that names its sender and has a payload
WellFormedBroadcast(m) ==
    /\ Decodable(m)
    /\ IsDict(json_loads(m))
    /\ get(json_loads(m), "type", None) \in {"trade_signal", "security_alert"}
    /\ get(json_loads(m), "source", None) \in {Src1, Src2}
    /\ IsDict(get(json_loads(m), "payload", [id |-> None]))

\* ---------------------------------------------------------------- claims
\* C1 (Broadcast exclusion): when the hub processes a trade_signal or a
\* security_alert of a registered peer A, every other registered peer with an
\* open connection is sent the rebroadcast (in this step, or it is still on
\* the fan-out's list), and A's own connection is never sent it.
C1_BroadcastExclusion ==
    [][\A h \in Handles :
        /\ (HubReceive(h) /\ h \in clients /\ conn[h] = "open"
                /\ clients \ {h} # {}
                /\ WellFormedBroadcast(Head(inbox[h])))
            => /\ \A g \in clients \ {h} : conn[g] = "open" =>
                    \/ \E i \in DOMAIN NewOut(g) :
                          IsRelayOf(NewOut(g)[i], json_loads(Head(inbox[h])))
                    \/ pc'[h] = "fanout" /\ g \in cur'[h].todo
               /\ Relayed(h) = <<>>
        /\ HubFanout(h) => Relayed(h) = <<>>]_vars

\* C2 (Isolation under failure): when peer B's connection is dead while the
\* hub processes A's trade_signal or security_alert, then once the processing
\* is complete B is out of the Registry, every live peer C is still in it and
\* was sent the rebroadcast, and A was sent its ack.
C2_IsolationUnderFailure ==
    [][\A h \in Handles :
        (/\ HubReceive(h) /\ h \in clients /\ conn[h] = "open"
         /\ WellFormedBroadcast(Head(inbox[h]))
         /\ \E b \in clients \ {h} : conn[b] = "closed"
         /\ pc'[h] # "fanout")
        => /\ \A b \in clients \ {h} : conn[b] = "closed" => b \notin clients'
           /\ \A c \in clients \ {h} : conn[c] = "open" =>
                /\ c \in clients'
                /\ \E i \in DOMAIN NewOut(c) :
                      IsRelayOf(NewOut(c)[i], json_loads(Head(inbox[h])))
           /\ Len(Direct(h)) = 1
           /\ TypeOf(Direct(h)[1]) \in {"trade_signal_ack", "security_alert_ack"}]_vars

\* C3 (Malformed input): a message of an open connection that is not JSON
\* gets exactly one error envelope "Invalid JSON format" sent to its sender
\* and nothing to anyone else; the Registry and the history are unchanged, the
\* connection stays open and its handler waits for the next message.
C3_MalformedInput ==
    [][\A h \in Handles :
        (HubReceive(h) /\ conn[h] = "open" /\ ~Decodable(Head(inbox[h])))
        => /\ Len(NewOut(h)) = 1
           /\ TypeOf(NewOut(h)[1]) = "error"
           /\ json_loads(NewOut(h)[1]).message = "Invalid JSON format"
           /\ \A g \in Handles \ {h} : outbox'[g] = outbox[g]
           /\ clients' = clients
           /\ message_history' = message_history
           /\ conn' = conn
           /\ pc'[h] = "recv"
           /\ inbox'[h] = Tail(inbox[h])]_vars

\* C3 witness: a sender got the error for a malformed message and then the
\* handshake_response for its next message, and is still registered.
C3_Witness ==
    \E h \in Handles :
        /\ Len(outbox[h]) = 2
        /\ TypeOf(outbox[h][1]) = "error"
        /\ TypeOf(outbox[h][2]) = "handshake_response"
        /\ h \in clients /\ conn[h] = "open" /\ pc[h] = "recv"

\* C4 (bad message keeps the loop): a decodable message without a `type`, or
\* that is no object, gets an error envelope sent to its sender, whose handler
\* keeps waiting for messages with the handle registered.
C4_BadMessageKeepsLoop ==
    [][\A h \in Handles :
        (/\ HubReceive(h) /\ conn[h] = "open" /\ h \in clients
         /\ Decodable(Head(inbox[h]))
         /\ \/ ~IsDict(json_loads(Head(inbox[h])))
            \/ "type" \notin DOMAIN json_loads(Head(inbox[h])))
        => /\ Len(NewOut(h)) = 1
           /\ TypeOf(NewOut(h)[1]) = "error"
           /\ pc'[h] = "recv"
           /\ h \in clients'
           /\ conn'[h] = "open"]_vars

\* the reply type the protocol table gives for an incoming type (None: no reply)
ExpectedReply(t) ==
    CASE t = "handshake" -> "handshake_response"
      [] t = "trade_signal" -> "trade_signal_ack"
      [] t = "security_alert" -> "security_alert_ack"
      [] t = "market_data_request" -> "market_data_response"
      [] OTHER -> None

DataType(data) == IF IsDict(data) THEN get(data, "type", None) ELSE None

\* what the handler of h replied in this step, for the envelope data
ClassifiedReply(h, data) ==
    /\ Len(Direct(h)) <= 1
    /\ pc'[h] = "fanout" => Direct(h) = <<>>
    /\ ExpectedReply(DataType(data)) = None => Direct(h) = <<>>
    /\ \A i \in DOMAIN Direct(h) :
        /\ TypeOf(Direct(h)[i]) = ExpectedReply(DataType(data))
        /\ DataType(data) = "handshake" =>
            /\ json_loads(Direct(h)[i]).status = "connected"
            /\ json_loads(Direct(h)[i]).capabilities =
                    <<"trade_signals", "security_alerts", "market_data">>
    /\ (pc'[h] = "recv" /\ conn[h] = "open" /\ ExpectedReply(DataType(data)) # None)
        => Len(Direct(h)) = 1

\* C6 (Hub classification): for a decoded envelope the hub sends its sender at
\* most one direct reply, none before the fan-out is over, and its type is the
\* one the incoming type fixes (handshake_response with status connected and
\* the fixed capability list, trade_signal_ack, security_alert_ack,
\* market_data_response); another type gets none; a handler that returns to
\* waiting on an open connection has sent the reply of a recognized type; no
\* step but the sender's own handler sends a direct reply.
C6_HubClassification ==
    [][\A h \in Handles :
        /\ (HubReceive(h) /\ Decodable(Head(inbox[h])))
            => ClassifiedReply(h, json_loads(Head(inbox[h])))
        /\ HubFanout(h) => ClassifiedReply(h, cur[h].data)
        /\ ~(HubReceive(h) \/ HubFanout(h)) => Direct(h) = <<>>]_vars

\* C6 witness: one sender got a handshake_response and then a
\* security_alert_ack, one reply for each of its two envelopes.
C6_Witness ==
    \E h \in Handles :
        /\ Len(outbox[h]) = 2
        /\ TypeOf(outbox[h][1]) = "handshake_response"
        /\ TypeOf(outbox[h][2]) = "security_alert_ack"
        /\ Len(message_history) = 2

\* payload.id of an envelope (None when there is none)
IdOf(data) ==
    IF "payload" \in DOMAIN data /\ "id" \in DOMAIN data.payload
    THEN data.payload.id ELSE None

\* the acks the handler of h sent in this step echo the id of data
EchoOk(h, data) ==
    \A i \in DOMAIN Direct(h) :
        LET r == json_loads(Direct(h)[i]) IN
        /\ r.type = "trade_signal_ack" =>
              r.status = "received" /\ r.signal_id = IdOf(data)
                /\ DataType(data) = "trade_signal"
        /\ r.type = "security_alert_ack" =>
              r.status = "received" /\ r.alert_id = IdOf(data)
                /\ DataType(data) = "security_alert"

\* C7 (Ack echo): an ack has status "received" and echoes payload.id of the
\* message its handler is processing: the one just read, or the one kept
\* unchanged through the suspended fan-out, whatever other handlers do.
C7_AckEcho ==
    [][\A h \in Handles :
        /\ (HubReceive(h) /\ Decodable(Head(inbox[h])) /\ IsDict(json_loads(Head(inbox[h]))))
            => /\ EchoOk(h, json_loads(Head(inbox[h])))
               /\ pc'[h] = "fanout" =>
                    /\ IdOf(cur'[h].data) = IdOf(json_loads(Head(inbox[h])))
                    /\ DataType(cur'[h].data) = DataType(json_loads(Head(inbox[h])))
        /\ HubFanout(h)
            => /\ EchoOk(h, cur[h].data)
               /\ pc'[h] = "fanout" => cur'[h].data = cur[h].data
        /\ ~(HubReceive(h) \/ HubFanout(h))
            => cur'[h] = cur[h] /\ Direct(h) = <<>>]_vars

\* C7 witness: the ack of a fanned-out trade_signal echoes "s2" at one peer
\* and the ack of a security_alert echoes "a1" at another.
C7_Witness ==
    \E h, g \in Handles :
        /\ h # g
        /\ \E i \in DOMAIN outbox[h] :
              /\ TypeOf(outbox[h][i]) = "trade_signal_ack"
              /\ json_loads(outbox[h][i]).signal_id = "s2"
        /\ \E i \in DOMAIN outbox[g] :
              /\ TypeOf(outbox[g][i]) = "security_alert_ack"
              /\ json_loads(outbox[g][i]).alert_id = "a1"

\* e is data with the two broadcast fields added and nothing else changed
ExactRelay(e, data) ==
    /\ DOMAIN e = DOMAIN data \cup {"broadcast", "broadcast_timestamp"}
    /\ \A k \in DOMAIN data : e[k] = data[k]
    /\ e.broadcast = "true"

\* C8 (Rebroadcast content): every relayed envelope written to a peer is the
\* envelope its handler received (type, payload, source and every other field
\* unchanged) plus broadcast = true and broadcast_timestamp.
C8_RebroadcastContent ==
    [][\A h \in Handles :
        /\ (HubReceive(h) /\ Decodable(Head(inbox[h])) /\ IsDict(json_loads(Head(inbox[h]))))
            => /\ \A g \in Handles : \A i \in DOMAIN Relayed(g) :
                    ExactRelay(json_loads(Relayed(g)[i]), json_loads(Head(inbox[h])))
               /\ pc'[h] = "fanout" =>
                    ExactRelay(cur'[h].data, json_loads(Head(inbox[h])))
        /\ HubFanout(h)
            => /\ \A g \in Handles : \A i \in DOMAIN Relayed(g) :
                    json_loads(Relayed(g)[i]) = cur[h].data
               /\ pc'[h] = "fanout" => cur'[h].data = cur[h].data
        /\ (\A a \in Handles : ~(HubReceive(a) \/ HubFanout(a)))
            => outbox' = outbox /\ cur' = cur]_vars

\* C8 witness: the fan-out of one envelope has reached two peers.
C8_Witness ==
    \E h, g \in Handles :
        /\ h # g
        /\ \E i \in DOMAIN outbox[h] : IsRelay(outbox[h][i])
        /\ \E i \in DOMAIN outbox[g] : IsRelay(outbox[g][i])
        /\ Len(message_history) = 1

\* a message that is no trade_signal and no security_alert
NoBroadcastType(m) ==
    \/ ~Decodable(m)
    \/ ~IsDict(json_loads(m))
    \/ get(json_loads(m), "type", None) \notin {"trade_signal", "security_alert"}

\* C9 (only trade_signal and security_alert fan out): processing any other
\* message writes to no peer but the sender and starts no fan-out; a fan-out
\* in progress is that of a trade_signal or a security_alert.
C9_OnlyBroadcastTypesFanOut ==
    [][\A h \in Handles :
        /\ (HubReceive(h) /\ NoBroadcastType(Head(inbox[h])))
            => /\ \A g \in Handles \ {h} : outbox'[g] = outbox[g]
               /\ pc'[h] # "fanout"
        /\ pc'[h] = "fanout" =>
              DataType(cur'[h].data) \in {"trade_signal", "security_alert"}]_vars

\* C9 witness: a sender got its handshake_response and market_data_response
\* while another registered, open peer was sent nothing.
C9_Witness ==
    \E h, g \in Handles :
        /\ h # g
        /\ Len(outbox[h]) = 2
        /\ TypeOf(outbox[h][1]) = "handshake_response"
        /\ TypeOf(outbox[h][2]) = "market_data_response"
        /\ g \in clients /\ conn[g] = "open" /\ outbox[g] = <<>>

RecognizedTypes == {"handshake", "trade_signal", "security_alert", "market_data_request"}

\* C10 (unknown type): an envelope of an unrecognized type is appended to the
\* history; nothing is sent to anyone, no fan-out starts, and the connection
\* and the Registry are as before, the handler waiting for the next message.
C10_UnknownType ==
    [][\A h \in Handles :
        (/\ HubReceive(h)
         /\ Decodable(Head(inbox[h]))
         /\ IsDict(json_loads(Head(inbox[h])))
         /\ "type" \in DOMAIN json_loads(Head(inbox[h]))
         /\ json_loads(Head(inbox[h])).type \notin RecognizedTypes)
        => /\ Len(message_history') = Len(message_history) + 1
           /\ SubSeq(message_history', 1, Len(message_history)) = message_history
           /\ message_history'[Len(message_history')].message = json_loads(Head(inbox[h]))
           /\ outbox' = outbox
           /\ pc'[h] = "recv"
           /\ conn' = conn
           /\ clients' = clients
           /\ inbox'[h] = Tail(inbox[h])]_vars

\* C10 witness: an unknown envelope is in the history, no reply was sent for
\* it, and the sender's next envelope, a handshake, was answered.
C10_Witness ==
    \E h \in Handles :
        /\ Len(message_history) = 2
        /\ message_history[1].message.type = "ping"
        /\ message_history[2].message.type = "handshake"
        /\ Len(outbox[h]) = 1
        /\ TypeOf(outbox[h][1]) = "handshake_response"
        /\ h \in clients /\ conn[h] = "open"
        /\ \A g \in Handles \ {h} : outbox[g] = <<>>

\* the messages put on the wire towards the hub on connection h in this step
Transmitted(h) ==
    IF Len(inbox'[h]) > Len(inbox[h])
    THEN SubSeq(inbox'[h], Len(inbox[h]) + 1, Len(inbox'[h]))
    ELSE <<>>

IsHandshakeResponse(w) == TypeOf(w) = "handshake_response"

\* C5 (Handshake): on a connection of the client, the first envelope
\* transmitted is the handshake of connect_to_server, sent in the step that
\* starts the listener (connect returns True), and no later transmission on it
\* is a handshake; the hub sends at most one handshake_response on it, and
\* exactly one has been received once the connection, still open, is idle with
\* everything read.
C5_Handshake ==
    [][\A h \in Handles : h \in owned' =>
        /\ (Transmitted(h) # <<>> /\ listener[h] = "none")
            => /\ Transmitted(h) = <<json_dumps(handshake)>>
               /\ listener'[h] = "run"
               /\ inbox[h] = <<>>
        /\ (Transmitted(h) # <<>> /\ listener[h] # "none")
            => \A i \in DOMAIN Transmitted(h) : TypeOf(Transmitted(h)[i]) # "handshake"
        /\ (listener[h] = "none" /\ listener'[h] = "run")
            => Transmitted(h) = <<json_dumps(handshake)>>
        /\ Len(SelectSeq(outbox'[h], IsHandshakeResponse)) <= 1
        /\ (/\ listener'[h] = "run" /\ conn'[h] = "open" /\ pc'[h] = "recv"
            /\ inbox'[h] = <<>> /\ rd'[h] = Len(outbox'[h]))
            => Len(SelectSeq(outbox'[h], IsHandshakeResponse)) = 1]_vars

\* C5 witness: on an open, idle connection the client has sent a message
\* after its handshake and has read the one handshake_response and the reply.
C5_Witness ==
    \E h \in Handles :
        /\ h \in owned /\ listener[h] = "run" /\ conn[h] = "open"
        /\ pc[h] = "recv" /\ inbox[h] = <<>>
        /\ rd[h] = Len(outbox[h])
        /\ Len(outbox[h]) = 2
        /\ IsHandshakeResponse(outbox[h][1])
        /\ Len(sent_messages) = 1
        /\ Len(received_messages) = 2
        /\ received_messages[1].type = "handshake_response"

\* C11 (connect failure leaves the client disconnected): when
\* connect_to_server returns False, because the transport did not open or
\* because the send of the handshake failed on the opened transport, the
\* connected flag is False afterwards and no listener was started.
C11_ConnectFailureDisconnected ==
    [][/\ ConnectFail => (~is_connected' /\ listener' = listener)
       /\ (ConnectResume /\ conn[pending_websocket] # "open")
            => (~is_connected' /\ listener' = listener)]_vars

\* C12 (send while not connected is a no-op): a send_message call made while
\* is_connected is False or there is no websocket returns False, leaves the
\* caller's dict as it was, puts nothing on any wire and changes neither the
\* sent buffer nor the connection state.
C12_SendNotConnected ==
    [][\A message \in CallerMessages :
        (ClientSend(message) /\ (~is_connected \/ websocket = 0))
        => /\ send_result'.returned = FALSE
           /\ send_result'.message = message
           /\ inbox' = inbox
           /\ sent_messages' = sent_messages
           /\ is_connected' = is_connected
           /\ websocket' = websocket
           /\ conn' = conn
           /\ listener' = listener]_vars

\* C12 witness: a send_message call before any connect has returned False and
\* the caller's dict still has the caller's own source and timestamp.
C12_Witness ==
    /\ ncalls.send = 1
    /\ ~is_connected
    /\ send_result = [returned |-> FALSE,
                      message |-> [type |-> "status", source |-> "someone-else",
                                   timestamp |-> "caller-time"]]
    /\ sent_messages = <<>>
    /\ \A h \in Handles : inbox[h] = <<>>

\* C13 (send result matches transmission): a send_message call on a
\* connected client returns True exactly when the envelope was put on the
\* wire to the hub, and False when the transport failed.
C13_SendResultMatchesTransmission ==
    [][\A message \in CallerMessages :
        (ClientSend(message) /\ is_connected /\ websocket # 0)
        => (send_result'.returned = TRUE <=> Transmitted(websocket) # <<>>)]_vars

\* C14 (source stamping): every envelope put on the wire of a connection of
\* the client, the handshake and those of send_message alike, has source equal
\* to local_agent_id, and so has every entry of the sent buffer, whatever
\* source the caller supplied.
C14_SourceStamping ==
    [][/\ \A h \in owned' : \A i \in DOMAIN Transmitted(h) :
            /\ Decodable(Transmitted(h)[i])
            /\ get(json_loads(Transmitted(h)[i]), "source", None) = local_agent_id
       /\ \A i \in DOMAIN sent_messages' :
            get(sent_messages'[i], "source", None) = local_agent_id]_vars

\* C14 witness: the hub has recorded the client's handshake and the envelope
\* whose caller had supplied another source, both with the client's id.
C14_Witness ==
    /\ Len(message_history) = 2
    /\ message_history[1].message.type = "handshake"
    /\ message_history[1].source = local_agent_id
    /\ message_history[2].message.type = "status"
    /\ message_history[2].source = local_agent_id
    /\ send_result.returned = TRUE

\* C15 (receive loop on transport close): when the listener finds its
\* transport closed, by a normal closure or by an error closure, it exits and
\* the connected flag is False afterwards.
C15_ListenerCloseDisconnects ==
    [][\A h \in Handles :
        ListenClosed(h) => (listener'[h] = "done" /\ ~is_connected')]_vars

\* C16 (client decode errors are per-message): the listener takes the frames
\* of its connection in arrival order; a frame that does not decode is
\* skipped, one that decodes is appended to received_messages whatever it is,
\* and in both cases the listener keeps running with is_connected unchanged.
C16_ClientDecodeErrors ==
    [][\A h \in Handles :
        ListenRecv(h)
        => /\ rd'[h] = rd[h] + 1
           /\ listener'[h] = "run"
           /\ is_connected' = is_connected
           /\ IF Decodable(outbox[h][rd[h] + 1])
              THEN received_messages' =
                      Append(received_messages, json_loads(outbox[h][rd[h] + 1]))
              ELSE received_messages' = received_messages]_vars

\* C16 witness: the listener has read a handshake_response, text that is not
\* JSON and a JSON list; the received buffer holds the first and the third.
C16_Witness ==
    \E h \in Handles :
        /\ listener[h] = "run"
        /\ rd[h] = 3
        /\ ~Decodable(outbox[h][2])
        /\ Len(received_messages) = 2
        /\ received_messages[1] = json_loads(outbox[h][1])
        /\ received_messages[2] = [nondict |-> "[1]"]

\* C17 (connection loss disables sends until reconnect): a send_message call
\* on a lost connection returns False and transmits nothing; a transport is
\* opened for the client only inside a connect_to_server call; and once a
\* connect_to_server called after the loss has succeeded, a send_message call
\* on its open connection transmits the envelope.
C17_LossDisablesSendsUntilReconnect ==
    [][/\ \A message \in CallerMessages :
            (ClientSend(message) /\ websocket # 0 /\ conn[websocket] = "closed")
            => /\ send_result'.returned = FALSE
               /\ inbox' = inbox
               /\ sent_messages' = sent_messages
               /\ websocket' = websocket
               /\ owned' = owned
       /\ owned' # owned => (ctask = "connecting" /\ ctask' = "opened")
       /\ websocket' # websocket => ConnectResume
       /\ \A message \in CallerMessages :
            (/\ ClientSend(message)
             /\ websocket # 0 /\ conn[websocket] = "open"
             /\ listener[websocket] = "run"
             /\ lost_before_connect)
            => Transmitted(websocket) # <<>>]_vars

\* C18 (per-peer ordering): the handler of a peer takes the peer's messages
\* from the head of its stream, one at a time: it starts on a message only
\* with no fan-out of its own pending, the history entry it appends is that of
\* the message taken, nothing is taken while its fan-out runs, what the
\* fan-out writes are relays and the ack of that one message, and it returns
\* to reading only when the fan-out is over; the peer's messages join the
\* stream at its tail.
C18_PerPeerOrdering ==
    [][\A h \in Handles :
        /\ HubReceive(h)
            => /\ pc[h] = "recv" /\ cur[h] = NoCur
               /\ pc'[h] \in {"recv", "fanout"} => inbox'[h] = Tail(inbox[h])
               /\ message_history' # message_history
                    => /\ Len(message_history') = Len(message_history) + 1
                       /\ Decodable(Head(inbox[h]))
                       /\ \A k \in DOMAIN json_loads(Head(inbox[h])) :
                            message_history'[Len(message_history')].message[k]
                                = json_loads(Head(inbox[h]))[k]
        /\ (pc[h] = "fanout" /\ pc'[h] = "fanout")
            => /\ cur'[h].data = cur[h].data
               /\ Len(inbox'[h]) >= Len(inbox[h])
               /\ SubSeq(inbox'[h], 1, Len(inbox[h])) = inbox[h]
        /\ HubFanout(h)
            => /\ pc[h] = "fanout"
               /\ \A g \in Handles : \A i \in DOMAIN Relayed(g) :
                    json_loads(Relayed(g)[i]) = cur[h].data
               /\ EchoOk(h, cur[h].data)
               /\ message_history' = message_history
        /\ (pc[h] = "fanout" /\ pc'[h] = "recv")
            => /\ HubFanout(h)
               /\ cur[h].todo = {}
               /\ inbox'[h] = inbox[h]
        /\ \A m \in PeerMessages :
            PeerSend(h, m) => inbox'[h] = Append(inbox[h], m)]_vars

\* C18 witness: the peer's second message waits in the stream while the
\* fan-out of its first, with recipients still to go, is suspended.
C18_Witness ==
    \E h \in Handles :
        /\ pc[h] = "fanout"
        /\ cur[h].todo # {}
        /\ Len(inbox[h]) = 1
        /\ Len(message_history) = 1
        /\ \E g \in Handles : \E i \in DOMAIN outbox[g] : IsRelay(outbox[g][i])

\* a step of the connection of h: of its handler, or of its peer
StepOf(h) ==
    \/ HubReceive(h) \/ HubFanout(h) \/ HubLoopExit(h)
    \/ PeerClose(h)
    \/ \E m \in PeerMessages : PeerSend(h, m)

\* C19 (failure containment): a step of one connection, a failure included
\* (bad message, disconnect, failed send), leaves every other handler where
\* it is, with its stream and its transport, keeps every other live handle in
\* the Registry, and the next free handle can always be registered.
C19_FailureContainment ==
    /\ [][\A h, g \in Handles : (StepOf(h) /\ g # h)
            => /\ pc'[g] = pc[g]
               /\ cur'[g] = cur[g]
               /\ conn'[g] = conn[g]
               /\ inbox'[g] = inbox[g]
               /\ (g \in clients /\ conn[g] = "open") => g \in clients']_vars
    /\ [](\A h \in Handles :
            (conn[h] = "free" /\ \A g \in Handles : g < h => conn[g] # "free")
            => ENABLED Accept(h))

\* C19 witness: one handler has ended on an exception, a peer found dead was
\* dropped, and a third connection, registered, was served.
C19_Witness ==
    \E h, b, g \in Handles :
        /\ pc[h] = "raised"
        /\ conn[b] = "closed" /\ b # h
        /\ g \in clients /\ conn[g] = "open" /\ pc[g] = "recv"
        /\ \E i \in DOMAIN outbox[g] : TypeOf(outbox[g][i]) = "handshake_response"

\* C20 (handle removal is idempotent): when a broadcast has already removed
\* a handle, the end of that handle's own receive loop removes nothing more
\* and raises no error; and a fan-out that ends with the sender's connection
\* open removes exactly the handles whose send failed, present or not, and
\* goes back to reading.
C20_RemovalIdempotent ==
    [][\A h \in Handles :
        /\ (HubLoopExit(h) /\ h \notin clients)
            => (pc'[h] = "done" /\ clients' = clients)
        /\ (HubFanout(h) /\ cur[h].todo = {} /\ conn[h] = "open")
            => (pc'[h] = "recv" /\ clients' = clients \ cur[h].disconnected)]_vars

\* the hub with raw peers, every handler task scheduled again and again: the
\* event loop resumes a handler that can run
FairSpec ==
    /\ Init /\ [][Next]_vars
    /\ \A h \in Handles :
        /\ WF_vars(HubReceive(h) /\ UNCHANGED clientVars)
        /\ WF_vars(HubFanout(h) /\ UNCHANGED clientVars)
        /\ WF_vars(HubLoopExit(h) /\ UNCHANGED clientVars)

\* the receive loop of h is running
LoopRunning(h) == pc[h] \in {"recv", "fanout"}

C22_FanoutToleratesRegistryChanges ==
    [][\A h \in Handles :
        (HubFanout(h) /\ cur[h].todo # {})
        => /\ pc'[h] = "fanout"
           /\ \A c \in cur[h].todo \ cur'[h].todo : c \in clients]_vars

\* the pair a market_data_request names ("MONAD/ETH" when it names none)
RequestedPair(data) ==
    IF "payload" \in DOMAIN data /\ "pair" \in DOMAIN data.payload
    THEN data.payload.pair ELSE "MONAD/ETH"

\* C23 (market data response): the reply to a market_data_request is one
\* market_data_response (on an open connection) whose pair is the requested
\* pair, or "MONAD/ETH" when the request names none, with price in [1,100],
\* liquidity in [100000,10000000] and volume_24h in [50000,5000000].
C23_MarketDataResponse ==
    [][\A h \in Handles :
        (/\ HubReceive(h)
         /\ Decodable(Head(inbox[h]))
         /\ DataType(json_loads(Head(inbox[h]))) = "market_data_request")
        => /\ conn[h] = "open" => Len(Direct(h)) = 1
           /\ \A i \in DOMAIN Direct(h) :
                LET r == json_loads(Direct(h)[i]) IN
                /\ r.type = "market_data_response"
                /\ r.pair = RequestedPair(json_loads(Head(inbox[h])))
                /\ r.price >= 1 /\ r.price <= 100
                /\ r.liquidity >= 100000 /\ r.liquidity <= 10000000
                /\ r.volume_24h >= 50000 /\ r.volume_24h <= 5000000]_vars

\* C23 witness: one request was answered for "MONAD/USDC", one that named no
\* pair for "MONAD/ETH".
C23_Witness ==
    \E h, g \in Handles :
        /\ \E i \in DOMAIN outbox[h] :
              /\ TypeOf(outbox[h][i]) = "market_data_response"
              /\ json_loads(outbox[h][i]).pair = "MONAD/USDC"
        /\ \E i \in DOMAIN outbox[g] :
              /\ TypeOf(outbox[g][i]) = "market_data_response"
              /\ json_loads(outbox[g][i]).pair = "MONAD/ETH"
              /\ json_loads(outbox[g][i]).price = 100

\* ------------------------------------------------- the text on the wire
\* json.dumps and json.loads on the text itself.  The text is a sequence of
\* tokens: punctuation [p], string literals [s], integer literals [i] and
\* float literals [f] (a float is kept as its repr).  json.dumps dispatches on
\* the Python type of a value; the values here carry no type, so the type is
\* taken from the key the value is stored under.
P(c) == [p |-> c]
IsP(t, c) == "p" \in DOMAIN t /\ t.p = c

DictKeys == {"payload"}
ListKeys == {"affected_pairs", "related_tx_hashes"}
IntKeys == {"amount", "severity"}
FloatKeys == {"timestamp", "price", "confidence"}

\* the order in which the keys are inserted into the dicts (json.dumps emits
\* a dict in insertion order): the literal of the helper, then the stamps
KeyOrder ==
    <<"type", "payload", "source", "timestamp",
      "id", "pair", "direction", "amount", "price", "confidence", "risk_level",
      "alert_type", "severity", "affected_pairs", "description",
      "related_tx_hashes">>

keys(d) == SelectSeq(KeyOrder, LAMBDA k : k \in DOMAIN d)

enc_scalar(k, v) ==
    IF k \in IntKeys THEN <<[i |-> v]>>
    ELSE IF k \in FloatKeys THEN <<[f |-> v]>>
    ELSE <<[s |-> v]>>

RECURSIVE enc_list(_)
\* variant: the last element of a list is not written
enc_list_drops_last(l) ==
    IF Len(l) <= 1 THEN <<>>
    ELSE IF Len(l) = 2 THEN <<[s |-> l[1]]>>
    ELSE <<[s |-> l[1]], P(",")>> \o enc_list(Tail(l))

enc_list(l) ==
    IF Len(l) = 0 THEN <<>>
    ELSE IF Len(l) = 1 THEN <<[s |-> l[1]]>>
    ELSE <<[s |-> l[1]], P(",")>> \o enc_list(Tail(l))

RECURSIVE enc_members(_, _)
enc_dict(d) == <<P("{")>> \o enc_members(d, keys(d)) \o <<P("}")>>

enc_value(k, v) ==
    IF k \in DictKeys THEN enc_dict(v)
    ELSE IF k \in ListKeys THEN <<P("[")>> \o enc_list(v) \o <<P("]")>>
    ELSE enc_scalar(k, v)

enc_members(d, ks) ==
    IF Len(ks) = 0 THEN <<>>
    ELSE <<[s |-> Head(ks)], P(":")>> \o enc_value(Head(ks), d[Head(ks)])
            \o (IF Len(ks) > 1 THEN <<P(",")>> ELSE <<>>)
            \o enc_members(d, Tail(ks))

\* json.dumps(message): the text
json_encode(message) == enc_dict(message)

RECURSIVE dec_value(_)
RECURSIVE dec_members(_, _)
RECURSIVE dec_elements(_, _)

\* one JSON value at the head of ts: the value and the tokens after it
dec_value(ts) ==
    IF IsP(Head(ts), "{") THEN dec_members(Tail(ts), <<>>)
    ELSE IF IsP(Head(ts), "[") THEN dec_elements(Tail(ts), <<>>)
    ELSE IF "i" \in DOMAIN Head(ts) THEN [val |-> Head(ts).i, rest |-> Tail(ts)]
    ELSE IF "f" \in DOMAIN Head(ts) THEN [val |-> Head(ts).f, rest |-> Tail(ts)]
    ELSE [val |-> Head(ts).s, rest |-> Tail(ts)]

\* the members of an object up to its closing brace; a repeated key keeps
\* the last value
dec_members(ts, acc) ==
    IF IsP(Head(ts), "}") THEN [val |-> acc, rest |-> Tail(ts)]
    ELSE IF IsP(Head(ts), ",") THEN dec_members(Tail(ts), acc)
    ELSE dec_members(dec_value(Tail(Tail(ts))).rest,
                     (Head(ts).s :> dec_value(Tail(Tail(ts))).val) @@ acc)

\* the elements of an array up to its closing bracket
dec_elements(ts, acc) ==
    IF IsP(Head(ts), "]") THEN [val |-> acc, rest |-> Tail(ts)]
    ELSE IF IsP(Head(ts), ",") THEN dec_elements(Tail(ts), acc)
    ELSE dec_elements(dec_value(ts).rest, Append(acc, dec_value(ts).val))

\* json.loads(message): the value of the text
json_decode(message) == dec_value(message).val

\* ------------------------------------- the client's envelopes as text
\* the TradeSignal and SecurityAlert objects and the pairs the callers pass
Signals ==
    [id : {"s1", "s2"}, pair : {"MONAD/ETH", "MONAD/USDC"},
     direction : {"BUY", "SELL"}, amount : {0, 100},
     price : {"0.0012"}, confidence : {"0.8"}, risk_level : {"medium", "high"}]
Alerts ==
    [id : {"alert_1"}, alert_type : {"flash_crash", "liquidity_drop"},
     severity : {0, 9},
     affected_pairs : {<<>>, <<"MONAD/ETH">>, <<"MONAD/ETH", "MONAD/USDC">>},
     description : {"Rapid price movement"},
     related_tx_hashes : {<<>>, <<"0xabc">>}]
Pairs == {"MONAD/ETH", "MONAD/USDC"}

\* the valid envelopes passed to send_message
Envelopes ==
    {trade_signal_message(signal) : signal \in Signals}
        \cup {security_alert_message(alert) : alert \in Alerts}
        \cup {market_data_request_message(pair) : pair \in Pairs}
        \cup {[type |-> "status", source |-> "someone-else", timestamp |-> "caller-time"]}

handshake_response == CHOOSE response \in process_message(handshake) : TRUE

\* a client connected on handle 1, its handshake answered and the answer read
WireInit ==
    /\ clients = {1}
    /\ message_history = <<history_entry(handshake)>>
    /\ pc = [h \in Handles |-> IF h = 1 THEN "recv" ELSE "none"]
    /\ cur = [h \in Handles |-> NoCur]
    /\ conn = [h \in Handles |-> IF h = 1 THEN "open" ELSE "free"]
    /\ inbox = [h \in Handles |-> <<>>]
    /\ outbox = [h \in Handles |->
                    IF h = 1 THEN <<json_dumps(handshake_response)>> ELSE <<>>]
    /\ nsent = 0
    /\ websocket = 1
    /\ is_connected = TRUE
    /\ sent_messages = <<>>
    /\ received_messages = <<handshake_response>>
    /\ ctask = "idle"
    /\ listener = [h \in Handles |-> IF h = 1 THEN "run" ELSE "none"]
    /\ rd = [h \in Handles |-> IF h = 1 THEN 1 ELSE 0]
    /\ owned = {1}
    /\ ncalls = [connect |-> 1, send |-> 0]
    /\ send_result = NoResult
    /\ lost_before_connect = FALSE
    /\ alert_history = <<>>
    /\ start_pc = "none"
    /\ a2a_success = None
    /\ tasks = {}

\* a call of send_message, the text of json.dumps put on the wire
WireSend(message) ==
    /\ ncalls.send < MaxMsgs
    /\ ncalls' = [ncalls EXCEPT !.send = @ + 1]
    /\ send_result' = [returned |-> send_message(message).returned,
                       message |-> send_message(message).message]
    /\ IF send_message(message).transmitted THEN
            /\ inbox' = [inbox EXCEPT ![websocket] =
                            Append(@, json_encode(send_message(message).message))]
            /\ sent_messages' = Append(sent_messages, send_message(message).message)
       ELSE UNCHANGED <<inbox, sent_messages>>
    /\ UNCHANGED <<websocket, is_connected, received_messages, ctask,
                   listener, rd, owned, lost_before_connect>>
    /\ UNCHANGED <<hubVars, conn, outbox, nsent>>

\* register_client lines 20-21 on the text: json.loads at line 30 gives the
\* value that handle_message goes on with
WireReceive(h) ==
    /\ pc[h] = "recv"
    /\ inbox[h] # <<>>
    /\ nsent' = nsent
    /\ handle_message(h, json_dumps(json_decode(Head(inbox[h]))))
    /\ UNCHANGED clientVars

WireNext ==
    \/ \E message \in Envelopes : WireSend(message) /\ UNCHANGED guardianVars
    \/ \E h \in Handles : WireReceive(h)
    \/ \E h \in Handles : ListenRecv(h) /\ UNCHANGED guardianVars

WireSpec == WireInit /\ [][WireNext]_vars

\* C24 (envelope round-trip): the value the hub decodes from the text the
\* client transmitted equals the client's stamped envelope, field by field
\* (type, source, timestamp, payload), and so does the message of the history
\* entry the hub makes of it.
C24_EnvelopeRoundTrip ==
    [][\A h \in Handles :
        WireReceive(h)
        => LET sent == sent_messages[Len(sent_messages) - Len(inbox[h]) + 1]
               data == json_decode(Head(inbox[h]))
               entry == message_history'[Len(message_history')]
           IN /\ DOMAIN data = DOMAIN sent
              /\ \A k \in DOMAIN sent : data[k] = sent[k]
              /\ data = sent
              /\ Len(message_history') = Len(message_history) + 1
              /\ \A k \in DOMAIN sent : entry.message[k] = sent[k]
              /\ entry.source = local_agent_id]_vars

\* C24 witness: the hub has decoded a security_alert with two affected pairs
\* and then a trade_signal, both as the client stamped them.
C24_Witness ==
    /\ Len(message_history) = 3
    /\ inbox[1] = <<>>
    /\ message_history[2].message.type = "security_alert"
    /\ message_history[2].message.payload = sent_messages[1].payload
    /\ Len(message_history[2].message.payload.affected_pairs) = 2
    /\ message_history[3].message.type = "trade_signal"
    /\ message_history[3].message.payload.amount = 100
    /\ message_history[3].message.timestamp = Time

\* C25 (message history is append-only and complete): a step leaves the
\* history as it is or appends one entry to it; the handling of a decoded
\* envelope (a JSON object with a type, whatever the type) appends the entry
\* of that envelope, with its fields and its source; nothing else appends.
C25_HistoryAppendOnly ==
    [][/\ \/ message_history' = message_history
          \/ /\ Len(message_history') = Len(message_history) + 1
             /\ SubSeq(message_history', 1, Len(message_history)) = message_history
       /\ \A h \in Handles :
            (HubReceive(h) /\ Decodable(Head(inbox[h]))
                /\ HasType(json_loads(Head(inbox[h]))))
            => /\ Len(message_history') = Len(message_history) + 1
               /\ LET entry == message_history'[Len(message_history')]
                      data == json_loads(Head(inbox[h]))
                  IN /\ \A k \in DOMAIN data :
                            k \in DOMAIN entry.message /\ entry.message[k] = data[k]
                     /\ entry.source = get(data, "source", None)
       /\ message_history' # message_history
            => \E h \in Handles :
                  HubReceive(h) /\ Decodable(Head(inbox[h]))
                    /\ HasType(json_loads(Head(inbox[h])))]_vars

\* C25 witness: the history holds a market_data_request and, after it, a
\* security_alert whose source is empty.
C25_Witness ==
    /\ Len(message_history) = 2
    /\ message_history[1].message.type = "market_data_request"
    /\ message_history[2].message.type = "security_alert"
    /\ message_history[2].source = ""
    /\ \A h \in Handles : pc[h] # "fanout" /\ inbox[h] = <<>>

\* the broadcast mark is on the entry the step appended to the history
MarkedInHistory ==
    /\ Len(message_history') = Len(message_history) + 1
    /\ "broadcast" \in DOMAIN message_history'[Len(message_history')].message

PeerStall(c) ==
    /\ conn[c] = "open"
    /\ conn' = [conn EXCEPT ![c] = "stalled"]
    /\ UNCHANGED <<clients, message_history, pc, cur, inbox, outbox, nsent>>

\* envelopes that are fanned out to every registered handle
StallMessages ==
    { json_dumps([type |-> "trade_signal", payload |-> [id |-> "s2"]]),
      json_dumps([type |-> "security_alert", source |-> ""]) }

StallNext ==
    \/ \E h \in Handles : Accept(h) /\ UNCHANGED clientVars
    \/ \E h \in Handles : HubReceive(h) /\ UNCHANGED clientVars
    \/ \E h \in Handles : HubFanout(h) /\ UNCHANGED clientVars
    \/ \E h \in Handles : HubLoopExit(h) /\ UNCHANGED clientVars
    \/ \E h \in Handles, m \in StallMessages : PeerSend(h, m) /\ UNCHANGED clientVars
    \/ \E h \in Handles : PeerClose(h) /\ UNCHANGED clientVars
    \/ \E h \in Handles : PeerStall(h) /\ UNCHANGED clientVars

\* the event loop runs every coroutine that is ready: a handler with a message
\* to read, a fan-out whose send has returned, a loop whose connection closed
StallSpec ==
    /\ Init /\ [][StallNext]_vars
    /\ \A h \in Handles :
        /\ WF_vars(HubReceive(h) /\ UNCHANGED clientVars)
        /\ WF_vars(HubFanout(h) /\ UNCHANGED clientVars)
        /\ WF_vars(HubLoopExit(h) /\ UNCHANGED clientVars)

\* the handler of h is in a fan-out, one of its sends returned or not
InFanout(h) == pc[h] \in {"fanout", "blocked"}

\* C27 (a slow or dead peer cannot starve the fan-out): whatever a recipient
\* that stopped reading or closed does, every live recipient the fan-out has
\* still to send to is eventually sent to, the handler of a live sender
\* eventually leaves the fan-out with the ack sent, and every message a peer
\* has sent is eventually taken from its connection.
C27_SlowPeerCannotStarve ==
    \A h \in Handles :
        /\ \A g \in Handles :
            (InFanout(h) /\ g \in cur[h].todo /\ conn[g] = "open")
                ~> (g \notin cur[h].todo \/ conn[g] # "open")
        /\ (InFanout(h) /\ conn[h] = "open") ~> (pc[h] = "recv" \/ conn[h] # "open")
        /\ (inbox[h] # <<>>) ~> (inbox[h] = <<>>)

\* the fan-out of h made one send in this step: to a handle c of its list
\* from, which got the relay of data if its connection is open
SentToOneOf(h, from, data) ==
    \E c \in from :
        /\ cur'[h].todo = from \ {c}
        /\ Relayed(c) = IF conn[c] = "open" THEN <<json_dumps(data)>> ELSE <<>>
        /\ \A g \in Handles \ {c} : Relayed(g) = <<>>

\* C28 (all-or-nothing exclusion): for a trade_signal or security_alert with
\* a non-empty source the hub sends the rebroadcast to no handle and goes
\* straight to the ack; for one with an absent or empty source the fan-out
\* sends to every handle registered when it started, the sender's own
\* included, one handle per step, and ends only when none is left.
C28_AllOrNothingExclusion ==
    [][\A h \in Handles :
        /\ (/\ HubReceive(h)
            /\ Decodable(Head(inbox[h]))
            /\ HasType(json_loads(Head(inbox[h])))
            /\ json_loads(Head(inbox[h])).type \in {"trade_signal", "security_alert"}
            /\ PayloadOk(json_loads(Head(inbox[h])))
            /\ clients # {})
           => LET data == json_loads(Head(inbox[h])) IN
              IF Truthy(get(data, "source", None))
              THEN /\ \A g \in Handles : Relayed(g) = <<>>
                   /\ pc'[h] # "fanout"
              ELSE /\ pc'[h] = "fanout"
                   /\ (h \in clients => h \in cur'[h].todo \/ Relayed(h) # <<>>
                                        \/ conn[h] # "open")
                   /\ SentToOneOf(h, clients, mark_broadcast(data))
        /\ (HubFanout(h) /\ cur[h].todo # {})
           => /\ pc'[h] = "fanout"
              /\ SentToOneOf(h, cur[h].todo, cur[h].data)
        /\ (HubFanout(h) /\ cur[h].todo = {})
           => \A g \in Handles : Relayed(g) = <<>>]_vars

\* C28 witness: with peer g registered and open throughout, peer h sent an
\* envelope with a source, which went to nobody, and then one without, which
\* went to g and back to h itself.
C28_Witness ==
    \E h, g \in Handles :
        /\ g < h /\ conn[g] = "open" /\ conn[h] = "open"
        /\ Len(message_history) = 2
        /\ Truthy(message_history[1].source)
        /\ message_history[1].message.type \in {"trade_signal", "security_alert"}
        /\ ~Truthy(message_history[2].source)
        /\ Len(outbox[g]) = 1 /\ IsRelay(outbox[g][1])
        /\ Len(outbox[h]) = 3
        /\ ~IsRelay(outbox[h][1]) /\ IsRelay(outbox[h][2]) /\ ~IsRelay(outbox[h][3])
        /\ outbox[h][2] = outbox[g][1]

\* the message is in the history after this step
Recorded(data) ==
    \E i \in DOMAIN message_history' : message_history'[i].message = data

\* this step wrote a rebroadcast to some handle
RelaySent == \E g \in Handles : Relayed(g) # <<>>

\* this step wrote an ack to h
AckSent(h) ==
    \E i \in DOMAIN Direct(h) :
        TypeOf(Direct(h)[i]) \in {"trade_signal_ack", "security_alert_ack"}

\* C29 (ack follows fan-out): a step of the handler of h never writes a
\* rebroadcast and the ack together; a rebroadcast is written only for a
\* message that is in the history, and leaves the handler in the fan-out; the
\* ack is written only when the fan-out has no handle left to send to, for a
\* message that is in the history, and ends the handling of that message, so
\* that no rebroadcast of it follows its ack.
C29_AckFollowsFanout ==
    [][\A h \in Handles :
        /\ (HubReceive(h) \/ HubFanout(h))
           => /\ ~(RelaySent /\ AckSent(h))
              /\ RelaySent =>
                    /\ pc'[h] = "fanout"
                    /\ Recorded(cur'[h].data)
                    /\ \A g \in Handles : \A i \in DOMAIN Relayed(g) :
                            Relayed(g)[i] = json_dumps(cur'[h].data)
              /\ AckSent(h) =>
                    /\ pc'[h] = "recv" /\ cur'[h] = NoCur
                    /\ pc[h] = "fanout" => (cur[h].todo = {} /\ Recorded(cur[h].data))
                    /\ pc[h] = "recv" =>
                          \/ Recorded(json_loads(Head(inbox[h])))
                          \/ Recorded(mark_broadcast(json_loads(Head(inbox[h]))))
        /\ (HubFanout(h) /\ cur[h].todo # {}) => (RelaySent \/ pc'[h] = "fanout")
        /\ (pc[h] # "fanout" /\ pc'[h] = "fanout") => HubReceive(h)]_vars

\* C29 witness: an envelope without source is in the history, its fan-out
\* has sent it to peer g and to its sender h, and h got the ack after it.
C29_Witness ==
    \E h, g \in Handles :
        /\ h # g
        /\ Len(message_history) = 1
        /\ pc[h] = "recv" /\ cur[h] = NoCur
        /\ outbox[g] = <<json_dumps(message_history[1].message)>>
        /\ Len(outbox[h]) = 2
        /\ outbox[h][1] = outbox[g][1]
        /\ TypeOf(outbox[h][2]) \in {"trade_signal_ack", "security_alert_ack"}

\* C30 (the connected flag tracks the current connection): when the receive
\* loop of an earlier connection ends while the transport opened by the latest
\* successful connect_to_server is open, the connected flag is left as it is.
C30_FlagTracksCurrentConnection ==
    [][\A h \in Handles :
        (/\ ListenClosed(h)
         /\ websocket # 0 /\ websocket # h
         /\ conn[websocket] = "open")
        => is_connected' = is_connected]_vars

\* C31 (the sent buffer holds what send_message reported sent): a
\* send_message call that returns True appends its envelope to sent_messages,
\* a call that returns False appends nothing, and nothing else changes the
\* buffer.
C31_SentBufferMatchesResults ==
    [][/\ \A message \in CallerMessages :
            ClientSend(message)
            => sent_messages' = IF send_result'.returned
                                THEN Append(sent_messages, send_result'.message)
                                ELSE sent_messages
       /\ sent_messages' # sent_messages
            => \E message \in CallerMessages : ClientSend(message)]_vars

\* ------------------------------------------------------------ the guardian
MaxAlerts == 2      \* alerts the guardian raises in one run

\* the three loops start() creates (lines 47-49)
MonitoringLoops ==
    {"market_monitoring_loop", "security_analysis_loop", "transaction_monitoring_loop"}

\* confidences above alert_threshold (lines 110, 120), in hundredths
Confidences == {90, 100}

\* int(confidence * scale), lines 128 and 151
severity(confidence, scale) == (confidence * scale) \div 100

\* raise_flash_crash_alert lines 125-133
flash_crash_alert(pair, price, confidence) ==
    [id |-> "alert_now", alert_type |-> "flash_crash",
     severity |-> severity(confidence, 10),
     affected_pairs |-> <<pair>>,
     description |-> [text |-> "Rapid price movement in", pair |-> pair, value |-> price],
     timestamp |-> Now, related_tx_hashes |-> <<>>, resolved |-> FALSE]

\* raise_liquidity_alert lines 148-156
liquidity_alert(pair, liquidity, confidence) ==
    [id |-> "alert_now", alert_type |-> "liquidity_drop",
     severity |-> severity(confidence, 8),
     affected_pairs |-> <<pair>>,
     description |-> [text |-> "Liquidity drop in", pair |-> pair, value |-> liquidity],
     timestamp |-> Now, related_tx_hashes |-> <<>>, resolved |-> FALSE]

\* the alerts detect_anomalies can raise
GuardianAlerts ==
    { flash_crash_alert(pair, "0.001200", c) : pair \in {"MONAD/ETH"}, c \in Confidences }
    \cup { liquidity_alert(pair, "1,000.00", c) : pair \in {"MONAD/USDC"}, c \in Confidences }

\* start() lines 28-35: up to the await of connect_to_server
GuardianStart ==
    /\ start_pc = "none"
    /\ ConnectCall
    /\ start_pc' = "connect"
    /\ UNCHANGED <<alert_history, a2a_success, tasks>>

\* variant: start() returns when connect_to_server has failed
StartResume_aborts_on_failure(success) ==
    /\ start_pc = "connect"
    /\ a2a_success' = success
    /\ tasks' = IF success THEN MonitoringLoops ELSE {}
    /\ start_pc' = "done"
    /\ alert_history' = alert_history

\* start() lines 35-51 once connect_to_server has returned success: the three
\* loops are created whatever it returned
StartResume(success) ==
    /\ start_pc = "connect"
    /\ a2a_success' = success
    /\ tasks' = MonitoringLoops
    /\ start_pc' = "done"
    /\ alert_history' = alert_history

\* connect_to_server returned False from its except branch: websockets.connect
\* raised
GuardianStartRefused == ConnectFail /\ StartResume(FALSE)

\* connect_to_server went on after websockets.connect: True, or False when the
\* send of the handshake raised
GuardianStartOpened ==
    /\ ctask = "opened"
    /\ ConnectResume
    /\ StartResume(conn[pending_websocket] = "open")

\* variant: the alert is recorded only when it is not broadcast
raise_alert_records_offline_only(alert) ==
    /\ "market_monitoring_loop" \in tasks
    /\ Len(alert_history) < MaxAlerts
    /\ IF is_connected
       THEN /\ ClientSend(security_alert_message(alert))
            /\ alert_history' = alert_history
       ELSE /\ alert_history' = Append(alert_history, alert)
            /\ UNCHANGED <<hubVars, netVars, networkVars>>
    /\ UNCHANGED <<start_pc, a2a_success, tasks>>

\* raise_flash_crash_alert lines 135-142 / raise_liquidity_alert lines 158-165,
\* called by the market monitoring loop: the append, the test of the
\* connected flag, and broadcast_security_alert up to its send
raise_alert(alert) ==
    /\ "market_monitoring_loop" \in tasks
    /\ Len(alert_history) < MaxAlerts
    /\ alert_history' = Append(alert_history, alert)
    /\ IF is_connected
       THEN ClientSend(security_alert_message(alert))
       ELSE UNCHANGED <<hubVars, netVars, networkVars>>
    /\ UNCHANGED <<start_pc, a2a_success, tasks>>

\* the guardian, its client, the hub and one raw peer
GuardianNext ==
    \/ \E h \in Handles : BesideAccept(h)
    \/ \E h \in Handles, m \in BesideMessages : BesideSend(h, m)
    \/ GuardianStart
    \/ \E h \in Handles : ClientAccept(h) /\ UNCHANGED guardianVars
    \/ GuardianStartRefused
    \/ GuardianStartOpened
    \/ \E alert \in GuardianAlerts : raise_alert(alert)
    \/ \E h \in Handles : ListenRecv(h) /\ UNCHANGED guardianVars
    \/ \E h \in Handles : ListenClosed(h) /\ UNCHANGED guardianVars
    \/ \E h \in Handles : HubReceive(h) /\ UNCHANGED clientVars
    \/ \E h \in Handles : HubFanout(h) /\ UNCHANGED clientVars
    \/ \E h \in Handles : HubLoopExit(h) /\ UNCHANGED clientVars
    \/ \E h \in Handles : NetClose(h)

GuardianSpec == Init /\ [][GuardianNext]_vars

\* C32 (guardian alert emission): every alert the guardian raises is appended
\* to alert_history, connected or not; it is passed to
\* broadcast_security_alert, which calls send_message with its envelope,
\* exactly when the connected flag is true at that moment; and alert_history
\* only grows, by the alerts raised.
C32_AlertEmission ==
    [][/\ \A alert \in GuardianAlerts :
            raise_alert(alert)
            => /\ alert_history' = Append(alert_history, alert)
               /\ is_connected
                    => /\ ncalls'.send = ncalls.send + 1
                       /\ send_result'.message.type = "security_alert"
                       /\ send_result'.message.payload
                            = security_alert_message(alert).payload
               /\ ~is_connected
                    => /\ ncalls' = ncalls
                       /\ send_result' = send_result
                       /\ inbox' = inbox
                       /\ sent_messages' = sent_messages
       /\ alert_history' # alert_history
            => /\ \E alert \in GuardianAlerts : raise_alert(alert)
               /\ Len(alert_history') = Len(alert_history) + 1
               /\ SubSeq(alert_history', 1, Len(alert_history)) = alert_history]_vars

\* C32 witness: two alerts are in alert_history, one raised while connected
\* and sent to the hub, the other raised in local mode and sent nowhere.
C32_Witness ==
    /\ Len(alert_history) = 2
    /\ ncalls.send = 1
    /\ Len(sent_messages) = 1
    /\ \E i \in 1..2 :
            sent_messages[1].payload = security_alert_message(alert_history[i]).payload
    /\ ~is_connected

\* C33 (guardian start-up is independent of the hub): start() calls
\* connect_to_server once and never again; once connect_to_server has
\* returned, True or False, start() has created the three monitoring loops;
\* the loops are created at no other moment.
C33_StartIndependentOfHub ==
    /\ [](start_pc = "done"
            => /\ tasks = MonitoringLoops
               /\ a2a_success \in BOOLEAN
               /\ ncalls.connect = 1)
    /\ [](start_pc # "done" => tasks = {})
    /\ [][/\ ncalls'.connect # ncalls.connect
                => (start_pc = "none" /\ ncalls'.connect = 1)
          /\ (ctask = "connecting" /\ ctask' = "idle")
                => (start_pc' = "done" /\ a2a_success' = FALSE)
          /\ (ctask = "opened" /\ ctask' = "idle") => start_pc' = "done"]_vars

\* C33 witness: connect_to_server has failed, the three loops run all the
\* same, and the market loop has raised an alert in local mode.
C33_Witness ==
    /\ start_pc = "done"
    /\ a2a_success = FALSE
    /\ ~is_connected
    /\ tasks = MonitoringLoops
    /\ alert_history # <<>>
    /\ ncalls.connect = 1

====
